---- MODULE Spec2Model ----
(***************************************************************************)
(* A model of mc/fs.py, the filesystem media indexer of mediacrawler:      *)
(* File.get_media (classification with demotion), DirTree (the walk and    *)
(* the entry list) and tree2json (the output document).                    *)
(*                                                                         *)
(* The filesystem is a set of nodes 0..MaxNode.  Node 0 is a directory     *)
(* that is a mount point and holds everything else; node RootNode is the   *)
(* node the command line's path names.  A path is the sequence of the      *)
(* nodes its components name, from the root on: Path(root, x) is           *)
(* Append(root, x).  A MIME string is the sequence of its characters, so   *)
(* that str.startswith is a real prefix test; Python's None is the         *)
(* one-element sequence None, which no prefix matches.                     *)
(***************************************************************************)
EXTENDS Integers, Sequences, FiniteSets, TLC

\* Highest node number of the filesystem (nodes are 0..MaxNode).
MaxNode == 3

Nodes == 0..MaxNode

\* The mount point that holds every other node.
MountNode == 0

\* The node that the path given on the command line names.
RootNode == 1

\* What lstat says a node is; "special" is a FIFO.
Kinds == {"dir", "file", "symlink", "special"}

\* File name suffixes of the regular files.
Exts == {"", ".jpg", ".mp4", ".mp3", ".txt"}

\* The bytes of the regular files: a JPEG with a JFIF header and no EXIF tags,
\* a JPEG with an Exif header and the camera's tags, a JPEG stream with neither
\* header, an MP4 video, text, bytes that are none of these, and no bytes.
Contents == {"jpeg", "jpeg_exif", "jpeg_bare", "mp4", "text", "data", "empty"}

None == <<"None">>

ImageJpeg == <<"i","m","a","g","e","/","j","p","e","g">>
VideoMp4 == <<"v","i","d","e","o","/","m","p","4">>
AudioMpeg == <<"a","u","d","i","o","/","m","p","e","g">>
TextPlain == <<"t","e","x","t","/","p","l","a","i","n">>
InodeDirectory == <<"i","n","o","d","e","/","d","i","r","e","c","t","o","r","y">>
InodeSymlink == <<"i","n","o","d","e","/","s","y","m","l","i","n","k">>
InodeFifo == <<"i","n","o","d","e","/","f","i","f","o">>
InodeXEmpty == <<"i","n","o","d","e","/","x","-","e","m","p","t","y">>
ApplicationOctetStream == <<"a","p","p","l","i","c","a","t","i","o","n","/","o","c","t","e","t","-","s","t","r","e","a","m">>

VARIABLES
  parent,      \* node -> the directory node that holds it
  kind,        \* node -> what lstat says it is
  target,      \* symlink node -> <<node it points to>>, or <<>> when dangling
  ext,         \* node -> its name's suffix
  content,     \* regular file node -> what its bytes are
  order,       \* directory node -> its entries in the order scandir lists them
  listable,    \* directory node -> the process may list it (has read permission)
  dest,        \* the destination file: "asbefore", "truncated", "written"
  pc,          \* where tree2json is
  err,         \* the exception that ended the run, "none" while there is none
  tree_type,   \* DirTree.tree_type of the tree under construction
  stack,       \* os.walk: the directories still to be scanned, next first
  allfiles,    \* read_tree's files
  built,       \* load_files: the entries the list comprehension has made
  files,       \* DirTree.files; <<>> stands for None (an assigned list holds the root)
  tried,       \* per get_media call: the class _determine_type chose
  reads,       \* per get_media call: how often each read was made
  warns,       \* the warnings emitted
  doc          \* the documents written to the destination file

fsvars == <<parent, kind, target, ext, content, order, listable>>
vars == <<parent, kind, target, ext, content, order, listable, dest, pc, err, tree_type,
          stack, allfiles, built, files, tried, reads, warns, doc>>

Last(p) == p[Len(p)]

(***************************************************************************)
(* The operating system: following links, listing a directory.             *)
(***************************************************************************)

\* Follow the symlinks from node n: the node reached and how it ended.
RECURSIVE Follow(_, _)
Follow(n, fuel) ==
  IF kind[n] # "symlink" THEN [err |-> "none", node |-> n]
  ELSE IF target[n] = <<>> THEN [err |-> "ENOENT", node |-> n]
  ELSE IF fuel = 0 THEN [err |-> "ELOOP", node |-> n]
  ELSE Follow(target[n][1], fuel - 1)

Resolve(n) == Follow(n, MaxNode + 1)

is_symlink(p) == kind[Last(p)] = "symlink"

is_dir(p) ==
  LET r == Resolve(Last(p)) IN r.err = "none" /\ kind[r.node] = "dir"

is_file(p) ==
  LET r == Resolve(Last(p)) IN r.err = "none" /\ kind[r.node] = "file"

is_mount(n) == n = MountNode

\* The nodes of set S by their numbers.
RECURSIVE Ascending(_)
Ascending(S) ==
  IF S = {} THEN <<>>
  ELSE LET m == CHOOSE x \in S : \A y \in S : x <= y
       IN <<m>> \o Ascending(S \ {m})

\* Sequence s with node n put in after its first k elements.
InsertAt(s, k, n) == SubSeq(s, 1, k) \o <<n>> \o SubSeq(s, k + 1, Len(s))

Children(d) == {n \in Nodes : n # MountNode /\ parent[n] = d}

\* os.scandir(top) as os.walk calls it: what the directory the path leads to
\* holds, in the directory's order.  When the path leads to no directory, or
\* to one the process may not list, scandir raises OSError; os.walk is called
\* without onerror, so it drops the error and goes on as if nothing were there.
scandir(top) ==
  LET d == Resolve(Last(top)) IN
  IF d.err = "none" /\ kind[d.node] = "dir" /\ listable[d.node]
  THEN order[d.node] ELSE <<>>

RECURSIVE SelectNodes(_, _)
SelectNodes(s, S) ==
  IF s = <<>> THEN <<>>
  ELSE (IF Head(s) \in S THEN <<Head(s)>> ELSE <<>>) \o SelectNodes(Tail(s), S)

_joinpaths(root, children) == [i \in 1..Len(children) |-> Append(root, children[i])]

(***************************************************************************)
(* The classes of mc/fs.py: their class attributes.                        *)
(***************************************************************************)

Classes == {"File", "SymLink", "Directory", "Archive", "Image", "Audio", "Video"}

file_type(cls) ==
  CASE cls = "File" -> "file"
    [] cls = "SymLink" -> "symlink"
    [] cls = "Directory" -> "dir"
    [] cls = "Archive" -> "archive"
    [] cls = "Image" -> "image"
    [] cls = "Audio" -> "audio"
    [] cls = "Video" -> "video"

\* A variant: only Directory sets readfile to False.
readfile_links(cls) == cls # "Directory"

readfile(cls) == cls \notin {"SymLink", "Directory"}

mimepre(cls) ==
  CASE cls = "Image" -> <<"i","m","a","g","e","/">>
    [] cls = "Audio" -> <<"a","u","d","i","o","/">>
    [] cls = "Video" -> <<"v","i","d","e","o","/">>
    [] OTHER -> None

\* str.startswith
startswith(s, pre) == Len(s) >= Len(pre) /\ SubSeq(s, 1, Len(pre)) = pre

\* Python's truth value of a MIME result: None and "" are false.
Truthy(m) == m # None /\ m # <<>>

(***************************************************************************)
(* The two MIME sources.                                                   *)
(***************************************************************************)

\* mimetypes.guess_type(path)[0]: the suffix table.
get_ext_mime(p) ==
  CASE ext[Last(p)] = ".jpg" -> ImageJpeg
    [] ext[Last(p)] = ".mp4" -> VideoMp4
    [] ext[Last(p)] = ".mp3" -> AudioMpeg
    [] ext[Last(p)] = ".txt" -> TextPlain
    [] OTHER -> None

\* magic.detect_from_filename(path).mime_type: libmagic does not follow a
\* link, and has an answer for every regular file: application/octet-stream
\* for bytes it does not recognise, inode/x-empty for none.  A link whose
\* target is missing or a loop gets a message that is no "type; charset" pair,
\* which detect_from_filename turns into ValueError.
pfm(p) ==
  LET n == Last(p) IN
  IF kind[n] = "symlink"
  THEN IF Resolve(n).err # "none" THEN [raised |-> "ValueError", mime |-> None]
       ELSE [raised |-> "none", mime |-> InodeSymlink]
  ELSE IF kind[n] = "dir" THEN [raised |-> "none", mime |-> InodeDirectory]
  ELSE IF kind[n] = "special" THEN [raised |-> "none", mime |-> InodeFifo]
  ELSE [raised |-> "none",
        mime |-> CASE content[n] \in {"jpeg", "jpeg_exif", "jpeg_bare"} -> ImageJpeg
                   [] content[n] = "mp4" -> VideoMp4
                   [] content[n] = "text" -> TextPlain
                   [] content[n] = "empty" -> InodeXEmpty
                   [] OTHER -> ApplicationOctetStream]

\* imghdr.what(path): "jpeg" for a JFIF or Exif header, None for every other
\* content there is here (the file is opened and its first bytes are read).
imghdr_what(p) ==
  IF content[Resolve(Last(p)).node] \in {"jpeg", "jpeg_exif"} THEN "jpeg" ELSE "None"

\* A variant: is_dir, which follows links, is asked before is_symlink.
_determine_type_dirfirst(p) ==
  IF is_dir(p) THEN [raised |-> "none", cls |-> "Directory"]
  ELSE IF is_symlink(p) THEN [raised |-> "none", cls |-> "SymLink"]
  ELSE IF ~is_file(p) THEN [raised |-> "AssertionError", cls |-> "File"]
  ELSE LET mimext == get_ext_mime(p) IN
       IF ~Truthy(mimext) THEN [raised |-> "none", cls |-> "File"]
       ELSE IF startswith(mimext, mimepre("Image")) THEN [raised |-> "none", cls |-> "Image"]
       ELSE IF startswith(mimext, mimepre("Video")) THEN [raised |-> "none", cls |-> "Video"]
       ELSE IF startswith(mimext, mimepre("Audio")) THEN [raised |-> "none", cls |-> "Audio"]
       ELSE [raised |-> "none", cls |-> "File"]

\* A variant: no assertion, a special file goes on as a regular file would.
_determine_type_noassert(p) ==
  IF is_symlink(p) THEN [raised |-> "none", cls |-> "SymLink"]
  ELSE IF is_dir(p) THEN [raised |-> "none", cls |-> "Directory"]
  ELSE LET mimext == get_ext_mime(p) IN
       IF ~Truthy(mimext) THEN [raised |-> "none", cls |-> "File"]
       ELSE IF startswith(mimext, mimepre("Image")) THEN [raised |-> "none", cls |-> "Image"]
       ELSE IF startswith(mimext, mimepre("Video")) THEN [raised |-> "none", cls |-> "Video"]
       ELSE IF startswith(mimext, mimepre("Audio")) THEN [raised |-> "none", cls |-> "Audio"]
       ELSE [raised |-> "none", cls |-> "File"]

\* File._determine_type: the class to try first, or the failed assertion
\* (assertions are on, as they are unless the interpreter is run with -O).
_determine_type(p) ==
  IF is_symlink(p) THEN [raised |-> "none", cls |-> "SymLink"]
  ELSE IF is_dir(p) THEN [raised |-> "none", cls |-> "Directory"]
  ELSE IF ~is_file(p) THEN [raised |-> "AssertionError", cls |-> "File"]
  ELSE LET mimext == get_ext_mime(p) IN
       IF ~Truthy(mimext) THEN [raised |-> "none", cls |-> "File"]
       ELSE IF startswith(mimext, mimepre("Image")) THEN [raised |-> "none", cls |-> "Image"]
       ELSE IF startswith(mimext, mimepre("Video")) THEN [raised |-> "none", cls |-> "Video"]
       ELSE IF startswith(mimext, mimepre("Audio")) THEN [raised |-> "none", cls |-> "Audio"]
       ELSE [raised |-> "none", cls |-> "File"]

(***************************************************************************)
(* File.__init__ and the methods it calls.  Each returns what it raised    *)
(* ("none" when it returned), the attributes it set and the reads it made. *)
(***************************************************************************)

\* What the system says of the inode of node n: its size and the time of
\* its last change, whatever they are.
os_stat(n) == [st_size |-> <<"st_size", n>>, st_mtime |-> <<"st_mtime", n>>]

\* File.status / SymLink.status: the stat of the node the path leads to, or
\* of the link itself.
status(cls, p) ==
  IF cls = "SymLink" THEN [raised |-> "none", stat |-> os_stat(Last(p))]
  ELSE LET r == Resolve(Last(p)) IN
       IF r.err = "none" THEN [raised |-> "none", stat |-> os_stat(r.node)]
       ELSE [raised |-> "OSError", stat |-> os_stat(Last(p))]

\* A variant: the prefix of the class is not checked.
magic_file_nocheck(cls, p) ==
  IF ~readfile(cls) THEN [raised |-> "none", mime |-> None, sniff |-> 0]
  ELSE LET sniffed == pfm(p)
           mime == IF ~Truthy(sniffed.mime) THEN get_ext_mime(p) ELSE sniffed.mime
       IN IF sniffed.raised # "none"
          THEN [raised |-> sniffed.raised, mime |-> None, sniff |-> 1]
          ELSE [raised |-> "none", mime |-> mime, sniff |-> 1]

\* File.magic_file
magic_file(cls, p) ==
  IF ~readfile(cls) THEN [raised |-> "none", mime |-> None, sniff |-> 0]
  ELSE LET sniffed == pfm(p)
           mime == IF ~Truthy(sniffed.mime) THEN get_ext_mime(p) ELSE sniffed.mime
       IN IF sniffed.raised # "none"
          THEN [raised |-> sniffed.raised, mime |-> None, sniff |-> 1]
          ELSE IF mimepre(cls) = None THEN [raised |-> "none", mime |-> mime, sniff |-> 1]
          ELSE IF mime = None THEN [raised |-> "AttributeError", mime |-> mime, sniff |-> 1]
          ELSE IF ~startswith(mime, mimepre(cls))
               THEN [raised |-> "NotMyKindOfFile", mime |-> mime, sniff |-> 1]
          ELSE [raised |-> "none", mime |-> mime, sniff |-> 1]

\* File.sha256sum: the digest of the bytes.
sha256sum(p) == <<"sha256", content[Resolve(Last(p)).node]>>

\* File.hash_file
hash_file(cls, p) ==
  IF ~readfile(cls) THEN [sha256 |-> None, hash |-> 0]
  ELSE [sha256 |-> sha256sum(p), hash |-> 1]

NoTarget == [err |-> "unset", node |-> MountNode]

\* What Image.type_init sets before it looks at the file, and what the
\* other classes never set.
NoImage == [exif |-> None, camera |-> None, resolution |-> None, orientation |-> None]

\* Image.read_exif and the attributes type_init derives from the tags: with
\* the camera's tags these are their values; without, both names are None
\* and int("None") raises ValueError, which leaves resolution None.
read_exif(p) ==
  IF content[Resolve(Last(p)).node] = "jpeg_exif"
  THEN [exif |-> <<"tags", "JPEGThumbnail">>,
        camera |-> <<"Image Make", "Image Model">>,
        resolution |-> <<"EXIF ExifImageWidth", "EXIF ExifImageLength">>,
        orientation |-> <<"Image Orientation">>]
  ELSE [exif |-> <<"JPEGThumbnail">>, camera |-> <<None, None>>,
        resolution |-> None, orientation |-> None]

\* type_init of the class: SymLink.type_init resolves the link, Image.type_init
\* (which Video inherits) asks imghdr for the header and, for a JPEG, reads the
\* EXIF tags.  Path.resolve() raises RuntimeError on a link loop in every
\* Python that still has imghdr, which the module imports (up to 3.12).
type_init(cls, p) ==
  IF cls = "SymLink" THEN
    LET r == Resolve(Last(p)) IN
    IF r.err = "ELOOP"
    THEN [raised |-> "RuntimeError", target |-> NoTarget, image |-> NoImage, meta |-> 0]
    ELSE [raised |-> "none", target |-> r, image |-> NoImage, meta |-> 0]
  ELSE IF cls \in {"Image", "Video"} THEN
    IF imghdr_what(p) # "jpeg"
    THEN [raised |-> "none", target |-> NoTarget, image |-> NoImage, meta |-> 1]
    ELSE [raised |-> "none", target |-> NoTarget, image |-> read_exif(p), meta |-> 2]
  ELSE [raised |-> "none", target |-> NoTarget, image |-> NoImage, meta |-> 0]

NoReads == [stat |-> 0, sniff |-> 0, hash |-> 0, meta |-> 0]

AddReads(a, b) ==
  [stat |-> a.stat + b.stat, sniff |-> a.sniff + b.sniff,
   hash |-> a.hash + b.hash, meta |-> a.meta + b.meta]

NoEntry == [path |-> <<>>, type |-> "none", stat |-> os_stat(MountNode), mime |-> None,
            sha256 |-> None, target |-> NoTarget, image |-> NoImage]

\* A variant: hash_file is called before magic_file.
Construct_hashfirst(cls, p) ==
  LET st == status(cls, p) IN
  IF st.raised # "none"
  THEN [raised |-> st.raised, entry |-> NoEntry, reads |-> [NoReads EXCEPT !.stat = 1]]
  ELSE
  LET hf == hash_file(cls, p)
      mf == magic_file(cls, p) IN
  IF mf.raised # "none"
  THEN [raised |-> mf.raised, entry |-> NoEntry,
        reads |-> [NoReads EXCEPT !.stat = 1, !.hash = hf.hash, !.sniff = mf.sniff]]
  ELSE
  LET ti == type_init(cls, p)
      rd == [stat |-> 1, sniff |-> mf.sniff, hash |-> hf.hash, meta |-> ti.meta]
  IN IF ti.raised # "none"
     THEN [raised |-> ti.raised, entry |-> NoEntry, reads |-> rd]
     ELSE [raised |-> "none",
           entry |-> [path |-> p, type |-> file_type(cls), stat |-> st.stat,
                      mime |-> mf.mime, sha256 |-> hf.sha256,
                      target |-> ti.target, image |-> ti.image],
           reads |-> rd]

\* File.__init__ of class cls for path p.
Construct(cls, p) ==
  LET st == status(cls, p) IN
  IF st.raised # "none"
  THEN [raised |-> st.raised, entry |-> NoEntry, reads |-> [NoReads EXCEPT !.stat = 1]]
  ELSE
  LET mf == magic_file(cls, p) IN
  IF mf.raised # "none"
  THEN [raised |-> mf.raised, entry |-> NoEntry,
        reads |-> [NoReads EXCEPT !.stat = 1, !.sniff = mf.sniff]]
  ELSE
  LET hf == hash_file(cls, p)
      ti == type_init(cls, p)
      rd == [stat |-> 1, sniff |-> mf.sniff, hash |-> hf.hash, meta |-> ti.meta]
  IN IF ti.raised # "none"
     THEN [raised |-> ti.raised, entry |-> NoEntry, reads |-> rd]
     ELSE [raised |-> "none",
           entry |-> [path |-> p, type |-> file_type(cls), stat |-> st.stat,
                      mime |-> mf.mime, sha256 |-> hf.sha256,
                      target |-> ti.target, image |-> ti.image],
           reads |-> rd]

\* A variant: NotMyKindOfFile is not caught.
get_media_uncaught(p) ==
  LET dt == _determine_type(p) IN
  IF dt.raised # "none"
  THEN [raised |-> dt.raised, entry |-> NoEntry, reads |-> NoReads,
        warns |-> <<>>, tried |-> "none"]
  ELSE LET first == Construct(dt.cls, p) IN
       [raised |-> first.raised, entry |-> first.entry, reads |-> first.reads,
        warns |-> <<>>, tried |-> dt.cls]

\* File.get_media(path): the entry, or the exception that leaves it; the
\* warnings emitted and the reads made on the way.
get_media(p) ==
  LET dt == _determine_type(p) IN
  IF dt.raised # "none"
  THEN [raised |-> dt.raised, entry |-> NoEntry, reads |-> NoReads,
        warns |-> <<>>, tried |-> "none"]
  ELSE
  LET first == Construct(dt.cls, p) IN
  IF first.raised = "NotMyKindOfFile"
  THEN LET again == Construct("File", p) IN
       [raised |-> again.raised, entry |-> again.entry,
        reads |-> AddReads(first.reads, again.reads),
        warns |-> << [path |-> p, attempted |-> file_type(dt.cls)] >>,
        tried |-> dt.cls]
  ELSE [raised |-> first.raised, entry |-> first.entry, reads |-> first.reads,
        warns |-> <<>>, tried |-> dt.cls]

(***************************************************************************)
(* The run of tree2json(path, jsonf).                                      *)
(***************************************************************************)

\* What a node that holds nothing can be: a directory, a special file, a
\* regular file, a symlink to any node (itself included) or to nothing.
NodeShapes ==
  {[kind |-> k, target |-> <<>>] : k \in {"dir", "special", "file"}}
  \cup {[kind |-> "symlink", target |-> t] : t \in {<<>>} \cup {<<m>> : m \in Nodes}}

\* Where the nodes can be: each in a node with a lower number (the mount
\* point holds itself).
ParentMaps ==
  {f \in [Nodes -> Nodes] : \A n \in Nodes : f[n] < n \/ (n = MountNode /\ f[n] = n)}

\* The directories os.walk scans once it has the nodes of S: those of S that
\* are no links, and the one the root leads to.
Scanned(S) ==
  LET r == Resolve(RootNode) IN
  {d \in S : kind[d] = "dir"}
    \cup (IF r.err = "none" /\ kind[r.node] = "dir" THEN {r.node} ELSE {})

\* The nodes in the directories of the walk: the root, and what is in a
\* directory that os.walk scans, whether it may list it or not.
RECURSIVE Walked(_)
Walked(S) ==
  LET T == S \cup {n \in Nodes \ {MountNode} : parent[n] \in Scanned(S)}
  IN IF T = S THEN S ELSE Walked(T)

\* The nodes os.walk comes to list: as Walked, without what is in a directory
\* the process may not list.
RECURSIVE Listed(_)
Listed(S) ==
  LET T == S \cup {n \in Nodes \ {MountNode} :
                     parent[n] \in Scanned(S) /\ listable[parent[n]]}
  IN IF T = S THEN S ELSE Listed(T)

\* The nodes the run looks at: those it lists and those their links lead to.
RECURSIVE Reachable(_)
Reachable(S) ==
  LET T == S \cup {target[m][1] : m \in {x \in S : target[x] # <<>>}}
  IN IF T = S THEN S ELSE Reachable(T)

\* The nodes that hold others, the mount point among them.
Holders(par) == {par[n] : n \in Nodes}

\* What a regular file can be: any suffix with any bytes.  Which header a JPEG
\* has is looked at by Image.type_init alone, which only a file named .jpg
\* comes to, so under the other suffixes the JPEG is the JFIF one.
Profiles ==
  {pr \in Exts \X Contents : pr[2] \in {"jpeg_exif", "jpeg_bare"} => pr[1] = ".jpg"}

\* Where the root can stand among the other entries of the mount point, given
\* in their order, when that directory is listed: if the root leads to the
\* mount point, first or right after any of them that is a directory (os.walk
\* keeps the directories apart from the rest, so its place among the rest
\* changes nothing); first if the walk never lists the mount point.
RootPlaces(others) ==
  LET r == Resolve(RootNode) IN
  IF r.err = "none" /\ r.node = MountNode
  THEN {0} \cup {k \in 1..Len(others) : is_dir(<<others[k]>>)}
  ELSE {0}

\* Any filesystem: the nodes that hold others are directories and the others
\* are anything; a regular file has any suffix and any bytes.  The nodes the
\* run never looks at are empty files without a suffix in the mount point, and
\* those it looks at only as where a link leads have no suffix and no bytes
\* (what they are changes nothing).  A directory that os.walk scans and that
\* holds something may be one the process has no permission to list (it can
\* still be searched, so what it holds can be reached by name); what it holds
\* is then plain files, unless a link that is listed leads there.  A directory lists its entries in any
\* order: the nodes other than the root are numbered in the order their
\* directory lists them (every tree with every order has such a numbering),
\* and the root, whose number is fixed, stands at any place among them.
Init ==
  /\ parent \in ParentMaps
  /\ \E s \in [Nodes \ Holders(parent) -> NodeShapes] :
       /\ kind = [n \in Nodes |-> IF n \in Holders(parent) THEN "dir" ELSE s[n].kind]
       /\ target = [n \in Nodes |-> IF n \in Holders(parent) THEN <<>> ELSE s[n].target]
  /\ \A n \in Nodes \ (Reachable(Walked({RootNode})) \cup {MountNode}) :
       parent[n] = MountNode /\ kind[n] = "file"
  /\ \E U \in SUBSET {d \in Scanned(Walked({RootNode})) : Children(d) # {}} :
       listable = [n \in Nodes |-> n \notin U]
  /\ \A n \in Walked({RootNode}) \ Reachable(Listed({RootNode})) : kind[n] = "file"
  /\ \E k \in RootPlaces(Ascending(Children(MountNode) \ {RootNode})) :
       order = [d \in Nodes |->
                 IF kind[d] # "dir" THEN <<>>
                 ELSE IF d = MountNode
                      THEN InsertAt(Ascending(Children(d) \ {RootNode}), k, RootNode)
                 ELSE Ascending(Children(d))]
  /\ \E b \in [{n \in Listed({RootNode}) : kind[n] = "file"} -> Profiles] :
       /\ ext = [n \in Nodes |-> IF n \in DOMAIN b THEN b[n][1] ELSE ""]
       /\ content = [n \in Nodes |-> IF n \in DOMAIN b THEN b[n][2] ELSE "empty"]
  /\ dest = "asbefore"
  /\ pc = "start"
  /\ err = "none"
  /\ tree_type = "none"
  /\ stack = <<>>
  /\ allfiles = <<>>
  /\ built = <<>>
  /\ files = <<>>
  /\ tried = <<>>
  /\ reads = <<>>
  /\ warns = <<>>
  /\ doc = <<>>

\* A variant: the destination is opened before the tree is built.
GetTree_openfirst ==
  /\ pc = "start"
  /\ dest' = "truncated"
  /\ LET r == Resolve(RootNode) IN
     IF r.err = "ELOOP"
     THEN /\ pc' = "failed"
          /\ err' = "RuntimeError"
          /\ UNCHANGED <<tree_type, stack, allfiles>>
     ELSE /\ tree_type' = IF r.err = "none" /\ is_mount(r.node) THEN "fstree" ELSE "subtree"
          /\ allfiles' = << <<RootNode>> >>
          /\ stack' = << <<RootNode>> >>
          /\ pc' = "walk"
          /\ UNCHANGED err
  /\ UNCHANGED <<fsvars, built, files, tried, reads, warns, doc>>

\* DirTree.get_tree, DirTree.__init__ and the first line of read_tree.
GetTree ==
  /\ pc = "start"
  /\ LET r == Resolve(RootNode) IN
     IF r.err = "ELOOP"
     THEN /\ pc' = "failed"
          /\ err' = "RuntimeError"
          /\ UNCHANGED <<tree_type, stack, allfiles>>
     ELSE /\ tree_type' = IF r.err = "none" /\ is_mount(r.node) THEN "fstree" ELSE "subtree"
          /\ allfiles' = << <<RootNode>> >>
          /\ stack' = << <<RootNode>> >>
          /\ pc' = "walk"
          /\ UNCHANGED err
  /\ UNCHANGED <<fsvars, dest, built, files, tried, reads, warns, doc>>

\* One directory of os.walk(self.path) and the loop body of read_tree: scandir
\* follows the path it is given, entries that are directories, through links
\* too, are dirs, and only those that are not links are walked in turn.  A
\* directory that cannot be listed adds nothing and the walk goes on.
WalkStep ==
  /\ pc = "walk"
  /\ stack # <<>>
  /\ LET top == Head(stack)
         listing == scandir(top)
         dirs == SelectNodes(listing, {n \in Nodes : is_dir(<<n>>)})
         fls == SelectNodes(listing, {n \in Nodes : ~is_dir(<<n>>)})
         walked == SelectNodes(dirs, {n \in Nodes : kind[n] # "symlink"})
     IN /\ allfiles' = allfiles \o _joinpaths(top, dirs) \o _joinpaths(top, fls)
        /\ stack' = _joinpaths(top, walked) \o Tail(stack)
        /\ pc' = IF stack' = <<>> THEN "load" ELSE "walk"
  /\ UNCHANGED <<fsvars, dest, err, tree_type, built, files, tried, reads,
                 warns, doc>>

\* One element of the list comprehension of load_files; the last one is
\* followed by the assignment to self.files.
LoadStep ==
  /\ pc = "load"
  /\ Len(built) < Len(allfiles)
  /\ LET g == get_media(allfiles[Len(built) + 1]) IN
     /\ tried' = Append(tried, g.tried)
     /\ reads' = Append(reads, g.reads)
     /\ warns' = warns \o g.warns
     /\ IF g.raised # "none"
        THEN /\ pc' = "failed"
             /\ err' = g.raised
             /\ UNCHANGED <<built, files>>
        ELSE /\ built' = Append(built, g.entry)
             /\ UNCHANGED err
             /\ IF Len(built') = Len(allfiles)
                THEN files' = built' /\ pc' = "dump"
                ELSE UNCHANGED files /\ pc' = "load"
  /\ UNCHANGED <<fsvars, dest, tree_type, stack, allfiles, doc>>

\* File.asdict and the overrides of SymLink and of Image (which Video
\* inherits), as JSONEncoder renders them: the path relative to the tree's;
\* a link has its target too, an image what was derived from the tags and
\* not the tags.
asdict(e) ==
  LET base == [type |-> e.type, path |-> Tail(e.path), size |-> e.stat.st_size,
               mtime |-> e.stat.st_mtime, mime |-> e.mime, sha256 |-> e.sha256]
  IN IF e.type = "symlink" THEN [target |-> e.target] @@ base
     ELSE IF e.type \in {"image", "video"}
          THEN [camera |-> e.image.camera, resolution |-> e.image.resolution,
                orientation |-> e.image.orientation] @@ base
     ELSE base

\* open(jsonf, 'w')
OpenDest ==
  /\ pc = "dump"
  /\ dest' = "truncated"
  /\ pc' = "opened"
  /\ UNCHANGED <<fsvars, err, tree_type, stack, allfiles, built, files, tried,
                 reads, warns, doc>>

\* json.dump(tree, jfh, cls=JSONEncoder)
JsonDump ==
  /\ pc = "opened"
  /\ doc' = Append(doc, [root |-> Resolve(RootNode),
                         files |-> [i \in 1..Len(files) |-> asdict(files[i])],
                         fs |-> (tree_type = "fstree")])
  /\ dest' = "written"
  /\ pc' = "done"
  /\ UNCHANGED <<fsvars, err, tree_type, stack, allfiles, built, files, tried,
                 reads, warns>>

Next == GetTree \/ WalkStep \/ LoadStep \/ OpenDest \/ JsonDump

Spec == Init /\ [][Next]_vars

(***************************************************************************)
(* What the properties speak of.                                           *)
(***************************************************************************)

\* The get_media calls made so far and those that returned an entry, by
\* their place in allfiles.
Called == 1..Len(reads)
Made == 1..Len(built)

NodeOf(i) == Last(allfiles[i])

\* The warnings that name path p.
WarnsFor(p) == {j \in 1..Len(warns) : warns[j].path = p}

Demoted(i) == WarnsFor(allfiles[i]) # {}

Specific == {"Image", "Video", "Audio"}

\* The first of Image, Video, Audio whose prefix MIME m starts with, else File.
KindOrder == <<"Image", "Video", "Audio">>
FirstMatch(m) ==
  LET S == {k \in 1..Len(KindOrder) : startswith(m, mimepre(KindOrder[k]))}
  IN IF S = {} THEN "File" ELSE KindOrder[CHOOSE k \in S : \A j \in S : k <= j]

\* Node n lies in directory d or below it, by the directories alone.
RECURSIVE IsUnder(_, _)
IsUnder(n, d) == n # MountNode /\ (parent[n] = d \/ IsUnder(parent[n], d))

NodesUnder(d) == {n \in Nodes : IsUnder(n, d)}

\* The path from directory d down to node n.
RECURSIVE PathFrom(_, _)
PathFrom(d, n) == IF n = d THEN <<d>> ELSE Append(PathFrom(d, parent[n]), n)

\* read_tree has returned.
WalkDone == pc \in {"load", "dump", "opened", "done"} \/ (pc = "failed" /\ allfiles # <<>>)

(***************************************************************************)
(* The properties.                                                         *)
(***************************************************************************)

\* C1: the class _determine_type chooses for a path is SymLink if the path is
\* a symbolic link (also when the link points to a directory), else Directory
\* if it is a directory, else for a regular file: File when the suffix gives
\* no MIME, otherwise the first of Image, Video, Audio whose prefix the
\* suffix's MIME starts with, and File when none does.
C1_InitialKind ==
  \A i \in Called :
    LET p == allfiles[i]
        n == Last(p)
    IN /\ kind[n] = "symlink" => tried[i] = "SymLink"
       /\ kind[n] = "dir" => tried[i] = "Directory"
       /\ kind[n] = "file" =>
            tried[i] = IF get_ext_mime(p) = None THEN "File"
                       ELSE FirstMatch(get_ext_mime(p))

\* A link to a directory was given SymLink and a regular file was given Video.
C1_Witness ==
  /\ \E i \in Called :
       kind[NodeOf(i)] = "symlink" /\ is_dir(allfiles[i]) /\ tried[i] = "SymLink"
  /\ \E i \in Called : kind[NodeOf(i)] = "file" /\ tried[i] = "Video"

\* C2: whenever the MIME sniffed from the bytes does not start with the
\* prefix of the class chosen for the path, get_media returns a generic File
\* entry, exactly one warning names the path and the attempted kind, and
\* NotMyKindOfFile does not leave get_media.
C2_Demotion ==
  /\ err # "NotMyKindOfFile"
  /\ \A i \in Called :
       LET p == allfiles[i] IN
       (tried[i] \in Specific /\ ~startswith(pfm(p).mime, mimepre(tried[i]))) =>
         /\ i \in Made
         /\ built[i].type = "file"
         /\ Cardinality(WarnsFor(p)) = 1
         /\ \A j \in WarnsFor(p) : warns[j].attempted = file_type(tried[i])

\* A path tried as Audio whose bytes are a video, and one tried as Image whose
\* bytes are not recognised, came back as generic Files with one warning each.
C2_Witness ==
  /\ \E i \in Made :
       /\ tried[i] = "Audio" /\ pfm(allfiles[i]).mime = VideoMp4
       /\ built[i].type = "file"
       /\ Cardinality(WarnsFor(allfiles[i])) = 1
  /\ \E i \in Made :
       /\ tried[i] = "Image" /\ content[NodeOf(i)] = "data"
       /\ built[i].type = "file" /\ built[i].mime = ApplicationOctetStream
       /\ Cardinality(WarnsFor(allfiles[i])) = 1

\* C3: an entry of a kind with a prefix (image, video, audio) has a MIME that
\* starts with that prefix; a regular file whose suffix gives no MIME, or one
\* that matches no prefix, comes back as a generic File whatever its bytes are.
C3_Conservative ==
  /\ \A i \in Made : \A c \in Specific :
       built[i].type = file_type(c) =>
         built[i].mime # None /\ startswith(built[i].mime, mimepre(c))
  /\ \A i \in Called :
       LET p == allfiles[i] IN
       (kind[NodeOf(i)] = "file"
          /\ (get_ext_mime(p) = None \/ FirstMatch(get_ext_mime(p)) = "File")) =>
         i \in Made /\ built[i].type = "file"

\* A file without a suffix whose bytes are a JPEG came back as a generic File,
\* and a .jpg file whose bytes are text was not kept as an image.
C3_Witness ==
  /\ \E i \in Made :
       /\ ext[NodeOf(i)] = "" /\ content[NodeOf(i)] = "jpeg"
       /\ built[i].type = "file" /\ built[i].mime = ImageJpeg
  /\ \E i \in Made :
       /\ ext[NodeOf(i)] = ".jpg" /\ content[NodeOf(i)] = "text"
       /\ built[i].type = "file"

\* C4: an entry has a sha256 exactly if it is neither a directory nor a
\* symlink; constructing a Directory or a SymLink sniffs, hashes and reads
\* nothing of the content, and its mime is None.
C4_HashIffReadable ==
  /\ \A i \in Made :
       /\ (built[i].sha256 # None) <=> (built[i].type \notin {"dir", "symlink"})
       /\ (built[i].type \in {"dir", "symlink"}) <=>
            (kind[NodeOf(i)] \in {"dir", "symlink"})
  /\ \A i \in Called :
       tried[i] \in {"Directory", "SymLink"} =>
         /\ reads[i].sniff = 0 /\ reads[i].hash = 0 /\ reads[i].meta = 0
         /\ i \in Made => built[i].mime = None

\* A link to a regular file, a directory and a regular file have entries.
C4_Witness ==
  /\ \E i \in Made : built[i].type = "symlink" /\ is_file(allfiles[i])
                     /\ built[i].sha256 = None
  /\ \E i \in Made : built[i].type = "dir" /\ built[i].sha256 = None
  /\ \E i \in Made : built[i].type = "image" /\ built[i].sha256 # None

\* C5, as stated: once the tree of a root that is not a symbolic link is read,
\* the list starts with the root and holds the root and every node below it,
\* each by its path and once; the entry list, once assigned, has an entry per
\* path, in that order.
C5_EveryNodeOnce ==
  (WalkDone /\ kind[RootNode] # "symlink") =>
    /\ allfiles[1] = <<RootNode>>
    /\ {allfiles[i] : i \in 1..Len(allfiles)}
         = {PathFrom(RootNode, n) : n \in {RootNode} \cup NodesUnder(RootNode)}
    /\ Len(allfiles) = 1 + Cardinality(NodesUnder(RootNode))
    /\ files # <<>> =>
         /\ Len(files) = Len(allfiles)
         /\ \A i \in 1..Len(files) : files[i].path = allfiles[i]

\* C6, as stated: every symbolic link is a leaf of the walk, the root
\* included: no path below a link is listed or classified, and each link has
\* one entry, of kind symlink, with its target.
C6_SymlinksAreLeaves ==
  /\ \A i \in 1..Len(allfiles) :
       \A k \in 1..(Len(allfiles[i]) - 1) : kind[allfiles[i][k]] # "symlink"
  /\ \A i \in Made :
       kind[NodeOf(i)] = "symlink" =>
         built[i].type = "symlink" /\ built[i].target.err # "unset"

\* The bytes are of a type the sniff knows.
Recognised(n) == content[n] \notin {"data", "empty"}

\* C7, as stated: the mime of a regular file's entry is the MIME sniffed from
\* its bytes when the sniff recognises them, else the MIME of its suffix, else
\* None; get_media does not raise for it and its sha256 is set; without a
\* suffix and with bytes that the sniff does not recognise it is a generic
\* File with mime None.
C7_ResolvedMime ==
  \A i \in Called :
    LET p == allfiles[i]
        n == Last(p)
    IN kind[n] = "file" =>
         /\ i \in Made
         /\ built[i].mime = IF Recognised(n) THEN pfm(p).mime ELSE get_ext_mime(p)
         /\ built[i].sha256 # None
         /\ (ext[n] = "" /\ content[n] = "data") =>
              built[i].type = "file" /\ built[i].mime = None

\* C8: a path of the walk that is neither link, directory nor regular file
\* ends the run with the failed assertion when it is classified; with such a
\* path in the list no entry list is ever assigned (the entries made before
\* are dropped) and the destination is neither opened nor written.
C8_SpecialFileIsFatal ==
  /\ (\E i \in 1..Len(allfiles) : kind[NodeOf(i)] = "special") =>
       /\ files = <<>> /\ doc = <<>> /\ dest = "asbefore"
       /\ pc \notin {"dump", "opened", "done"}
  /\ \A i \in Called :
       kind[NodeOf(i)] = "special" =>
         /\ pc = "failed" /\ err = "AssertionError"
         /\ i = Len(reads) /\ Len(built) = i - 1

\* The run failed on a special file after two entries had been made.
C8_Witness ==
  /\ pc = "failed" /\ err = "AssertionError"
  /\ Len(built) = 2 /\ files = <<>>
  /\ kind[NodeOf(Len(reads))] = "special"

\* C9, as stated: for every path with an entry, the stat, the sniff and the
\* hashing were each done once (sniff and hashing not at all for a directory
\* or a symlink), demoted paths included.
C9_AsStated ==
  \A i \in Made :
    LET r == built[i].type \notin {"dir", "symlink"} IN
    /\ reads[i].stat = 1
    /\ reads[i].sniff = IF r THEN 1 ELSE 0
    /\ reads[i].hash = IF r THEN 1 ELSE 0

\* C9, amended: that holds for every path that was not demoted; a demoted
\* path is constructed twice, so it is stat'ed twice and sniffed twice, and
\* hashed once.
C9_ReadsPerPath ==
  \A i \in Made :
    LET r == built[i].type \notin {"dir", "symlink"} IN
    IF Demoted(i)
    THEN reads[i].stat = 2 /\ reads[i].sniff = 2 /\ reads[i].hash = 1
    ELSE /\ reads[i].stat = 1
         /\ reads[i].sniff = (IF r THEN 1 ELSE 0)
         /\ reads[i].hash = (IF r THEN 1 ELSE 0)

\* A demoted path and one that was not demoted have entries.
C9_Witness ==
  /\ \E i \in Made : Demoted(i) /\ reads[i].stat = 2 /\ reads[i].sniff = 2
  /\ \E i \in Made : ~Demoted(i) /\ built[i].type = "video" /\ reads[i].sniff = 1

\* C10: the destination is as it was before the run until the whole tree is
\* read and every path has its entry; a run that failed has left it as it was.
C10_DestOpenedLast ==
  /\ pc \in {"start", "walk", "load", "dump", "failed"} => dest = "asbefore" /\ doc = <<>>
  /\ dest # "asbefore" =>
       /\ stack = <<>>
       /\ files # <<>>
       /\ Len(files) = Len(allfiles)
       /\ Len(reads) = Len(allfiles)

\* Runs that failed, on a special file after an entry was made and on a link
\* loop, with the destination as it was.
C10_Witness ==
  /\ pc = "failed" /\ dest = "asbefore"
  /\ Len(built) > 0
  /\ err \in {"AssertionError", "RuntimeError"}

====
